---- MODULE Spec2Model ----
(***************************************************************************)
(* One-way folder synchronisation (sync.py): a periodic loop that mirrors  *)
(* a source tree into a replica, either by a full recursive comparison     *)
(* (sync_folders) or by replaying the events a watchdog observer appended  *)
(* to sourceLog.log (sync_from_log / handle_event).                        *)
(***************************************************************************)
EXTENDS Naturals, Sequences, FiniteSets, TLC

(***************************************************************************)
(* Bounds of the model.                                                    *)
(***************************************************************************)
\* largest number of entries of a starting tree of TreeSpec
MaxEntries == 2
\* largest number of entries of a starting tree of Spec and ReplaySpec
MaxInitEntries == 1
\* number of changes the user makes to the source tree in one run
MaxChanges == 2
\* largest number of lines of a log file given to parse_event_log in ParseSpec
MaxLines == 3

(***************************************************************************)
(* The file system.  A tree is a function from relative paths to entries;  *)
(* entry names are drawn from Names, directories nest one level deep.      *)
(***************************************************************************)
Names == {"a", "b"}
Contents == {"X", "Y"}
Absent == "absent"
Dir == "dir"
Entries == {Absent, Dir} \cup Contents

Root == << >>
Paths == {Root} \cup {<<n>> : n \in Names} \cup {<<n, m>> : n, m \in Names}

Parent(p) == SubSeq(p, 1, Len(p) - 1)
IsPrefix(p, q) == Len(p) <= Len(q) /\ SubSeq(q, 1, Len(p)) = p
IsFile(fs, p) == fs[p] \in Contents

\* a tree the operating system can hold: every entry lies in a directory
WellFormed(fs) ==
    /\ fs[Root] \in {Absent, Dir}
    /\ \A p \in Paths \ {Root} :
          /\ fs[p] # Absent => fs[Parent(p)] = Dir
          /\ Len(p) = 2 => fs[p] # Dir
EntryCount(fs) == Cardinality({p \in Paths \ {Root} : fs[p] # Absent})
Trees == {fs \in [Paths -> Entries] : WellFormed(fs)}

\* the two orders in which a Python set of names can be iterated
Orders == {<<"a", "b">>, <<"b", "a">>}

(***************************************************************************)
(* Operating-system failures.  A fault makes one system call on one path   *)
(* raise; "interrupt" is a KeyboardInterrupt delivered while the loop is   *)
(* working on that path.                                                   *)
(***************************************************************************)
FaultOps == {"makedirs", "listsrc", "listrep", "md5src", "md5rep", "copy", "remove", "interrupt"}
Faults == [op : FaultOps, path : Paths]
Fails(faults, o, p) == [op |-> o, path |-> p] \in faults
FaultSets == {{}} \cup {{f} : f \in Faults}
\* neither file of a comparison can be read
BothUnreadable == {{[op |-> "md5src", path |-> p], [op |-> "md5rep", path |-> p]} : p \in Paths}

NoExc == "none"
Exc == "Exception"
Interrupt == "KeyboardInterrupt"

\* a line of the main activity log
Line(k, p) == [kind |-> k, path |-> p]
\* the running state of a reconciliation: replica tree, main log, pending exception
St(R, ops, exc) == [R |-> R, ops |-> ops, exc |-> exc]
Raise(st, e) == [st EXCEPT !.exc = e]
Log(st, k, p) == [st EXCEPT !.ops = Append(@, Line(k, p))]

\* os.path.exists / os.path.isdir / os.listdir
ExistsAlways(fs, p) == TRUE
Exists(fs, p) == fs[p] # Absent
IsDirectory(fs, p) == fs[p] = Dir
Listdir(fs, p) == IF Len(p) < 2 THEN {n \in Names : fs[p \o <<n>>] # Absent} ELSE {}

\* hashlib.md5(...).hexdigest() of the two contents of the model
Md5(c) == IF c = "X" THEN "02129bb861061d1a052c592e2dc6b383"
                     ELSE "57cec4137b614c87cb4e24a3d003a3e0"
None == "None"
md5Fails(fs, p, faults, op) == ~IsFile(fs, p) \/ Fails(faults, op, p)
calculate_md5(fs, p, faults, op) == IF md5Fails(fs, p, faults, op) THEN None ELSE Md5(fs[p])

\* shutil.copy2(src, dst): into dst when dst is a directory, over dst otherwise
copy2Target(R, p) == IF R[p] = Dir THEN p \o <<p[Len(p)]>> ELSE p
copy2Raises(S, R, p, faults) ==
    \/ Fails(faults, "copy", p)
    \/ ~IsFile(S, p)
    \/ R[Parent(p)] # Dir
    \/ copy2Target(R, p) \notin Paths
copy2(S, R, p) == [R EXCEPT ![copy2Target(R, p)] = S[p]]

\* shutil.rmtree(path, onerror=remove_readonly): entries are removed bottom-up; a
\* removal that still fails after the chmod leaves that entry and its ancestors
rmtreeTopOnly(R, p, faults) == [R EXCEPT ![p] = Absent]
rmtreeRaises(R, p, faults) == \E q \in Paths : IsPrefix(p, q) /\ Exists(R, q) /\ Fails(faults, "remove", q)
rmtree(R, p, faults) ==
    [q \in Paths |->
        IF IsPrefix(p, q) /\ ~(\E r \in Paths : IsPrefix(q, r) /\ Exists(R, r) /\ Fails(faults, "remove", r))
        THEN Absent ELSE R[q]]

\* shutil.copytree(src, dst): makedirs(dst), then every entry below src
makedirsOnly(S, R, p, faults) == [R EXCEPT ![p] = Dir]
copytreeRaises(S, R, p, faults) ==
    \/ \E q \in Paths : IsPrefix(p, q) /\ Exists(S, q) /\ Fails(faults, "copy", q)
    \/ (p # Root /\ R[Parent(p)] \in Contents)
copytree(S, R, p, faults) ==
    [q \in Paths |->
        IF IsPrefix(p, q) /\ ~(\E r \in Paths : IsPrefix(r, q) /\ IsPrefix(p, r) /\ Fails(faults, "copy", r))
        THEN S[q]
        ELSE IF IsPrefix(q, p) /\ R[q] = Absent THEN Dir ELSE R[q]]

(***************************************************************************)
(* TreeReconciler: sync_folders.                                           *)
(***************************************************************************)
RECURSIVE InOrder(_, _)
\* the members of a set of names, in the iteration order ord
InOrder(ord, set) ==
    IF ord = << >> THEN << >>
    ELSE (IF Head(ord) \in set THEN <<Head(ord)>> ELSE << >>) \o InOrder(Tail(ord), set)

\* the calculate_md5 calls of a comparison log an error line each time they fail
md5Errors(st, S, q, faults) ==
    LET s1 == IF md5Fails(S, q, faults, "md5src") THEN Log(st, "Error calculating MD5", q) ELSE st
    IN  IF md5Fails(st.R, q, faults, "md5rep") THEN Log(s1, "Error calculating MD5", q) ELSE s1

\* the condition of lines 95 and 162
NeedsCopyIfMissing(S, R, q, faults) == ~Exists(R, q)
NeedsCopy(S, R, q, faults) ==
    \/ ~Exists(R, q)
    \/ calculate_md5(S, q, faults, "md5src") # calculate_md5(R, q, faults, "md5rep")

\* lines 95-101: a file of the source directory
CopyFile(q, S, st, faults) ==
    IF ~Exists(st.R, q)
    THEN IF copy2Raises(S, st.R, q, faults)
         THEN Log(st, "Error copying", q)
         ELSE Log([st EXCEPT !.R = copy2(S, st.R, q)], "Copied", q)
    ELSE LET sm == md5Errors(st, S, q, faults)
         IN  IF NeedsCopy(S, st.R, q, faults)
             THEN IF copy2Raises(S, st.R, q, faults)
                  THEN Log(sm, "Error copying", q)
                  ELSE Log([sm EXCEPT !.R = copy2(S, st.R, q)], "Copied", q)
             ELSE sm

\* lines 104-116: an entry of the replica directory that the source lacks
RemoveItem(q, st, faults) ==
    IF Fails(faults, "interrupt", q) THEN Raise(st, Interrupt)
    ELSE IF IsDirectory(st.R, q)
    THEN IF rmtreeRaises(st.R, q, faults)
         THEN Log([st EXCEPT !.R = rmtree(st.R, q, faults)], "Error removing", q)
         ELSE Log([st EXCEPT !.R = rmtree(st.R, q, faults)], "Removed directory", q)
    ELSE IF Fails(faults, "remove", q) \/ ~Exists(st.R, q)
         THEN Log(st, "Error removing", q)
         ELSE Log([st EXCEPT !.R[q] = Absent], "Removed file", q)

RECURSIVE RemoveLoop(_, _, _, _)
RemoveLoop(items, p, st, faults) ==
    IF items = << >> \/ st.exc # NoExc THEN st
    ELSE RemoveLoop(Tail(items), p, RemoveItem(p \o <<Head(items)>>, st, faults), faults)

RECURSIVE sync_folders(_, _, _, _, _)
RECURSIVE CopyLoop(_, _, _, _, _, _)
\* lines 88-101: the loop over sourceFiles
CopyLoop(items, p, S, st, faults, ord) ==
    IF items = << >> \/ st.exc # NoExc THEN st
    ELSE LET q == p \o <<Head(items)>>
             next == IF Fails(faults, "interrupt", q) THEN Raise(st, Interrupt)
                     ELSE IF IsDirectory(S, q) THEN sync_folders(q, S, st, faults, ord)
                     ELSE CopyFile(q, S, st, faults)
         IN  CopyLoop(Tail(items), p, S, next, faults, ord)

\* lines 79-116; p is the path of src below the source root and of dest below the
\* replica root.  An exception of makedirs or listdir is caught nowhere.
sync_folders(p, S, st, faults, ord) ==
    LET made == IF Exists(st.R, p) THEN st
                ELSE IF Fails(faults, "makedirs", p) THEN Raise(st, Exc)
                ELSE [st EXCEPT !.R[p] = Dir]
    IN  IF made.exc # NoExc THEN made
        ELSE IF ~IsDirectory(S, p) \/ Fails(faults, "listsrc", p) THEN Raise(made, Exc)
        ELSE IF ~IsDirectory(made.R, p) \/ Fails(faults, "listrep", p) THEN Raise(made, Exc)
        ELSE LET sourceFiles == Listdir(S, p)
                 replicaFiles == Listdir(made.R, p)
                 copied == CopyLoop(InOrder(ord, sourceFiles), p, S, made, faults, ord)
             IN  RemoveLoop(InOrder(ord, replicaFiles \ sourceFiles), p, copied, faults)

(***************************************************************************)
(* The event log sourceLog.log and LogReconciler.                          *)
(***************************************************************************)
SrcRoot == <<"src">>
RepRoot == <<"rep">>
\* os.path.relpath(path, start) and os.path.join(root, rel), on paths below start
relpath(path, start) == SubSeq(path, Len(start) + 1, Len(path))
joinSource(root, rel) == <<"src">> \o rel
join(root, rel) == root \o rel

\* the message of a line log_event writes
LogLine(type, path) == [message |-> <<"Event type", type, path>>]
\* os.path.getsize of the log file: every line has its text and a newline
LineBytes(l) == Len(l.message) + (IF Len(l.message) >= 3 THEN Len(l.message[3]) ELSE 0) + 1
RECURSIVE getsize(_)
getsize(f) == IF f = << >> THEN 0 ELSE LineBytes(Head(f)) + getsize(Tail(f))

\* line 126: re.search(r'Event type: (.+?): (.+)', line)
Matches(l) == Len(l.message) >= 3 /\ l.message[1] = "Event type"

\* a line with bytes that are no text in the encoding of the file: open(log_file, "r")
\* and f.readlines() (lines 123-124) raise UnicodeDecodeError on a file that holds one
UndecodableLine == [message |-> <<"\\xff">>]
Readable(f) == \A i \in 1..Len(f) : f[i] # UndecodableLine

RECURSIVE MatchedEvents(_)
\* lines 125-130: the (event_type, item_path) of every line the pattern matches
MatchedEvents(f) ==
    IF f = << >> THEN << >>
    ELSE (IF Matches(Head(f))
          THEN << <<Head(f).message[2], Head(f).message[3]>> >>
          ELSE << >>) \o MatchedEvents(Tail(f))
\* lines 119-133: the events of the file, none when the file cannot be read
parse_event_log(f) == IF Readable(f) THEN MatchedEvents(f) ELSE << >>

\* lines 166-167: the except clause of handle_event
Uncaught(st, p) == st
Caught(st, p) ==
    IF st.exc = Exc THEN Log([st EXCEPT !.exc = NoExc], "Error handling event", p) ELSE st

\* lines 136-167
handle_event(event, src, dest, S, st, faults) ==
    LET event_type == event[1]
        src_item_path == event[2]
        dest_item_path == join(dest, relpath(src_item_path, src))
        sp == relpath(src_item_path, SrcRoot)
        dp == relpath(dest_item_path, RepRoot)
        try ==
            IF event_type = "deleted"
            THEN IF IsDirectory(st.R, dp)
                 THEN IF rmtreeRaises(st.R, dp, faults)
                      THEN Raise([st EXCEPT !.R = rmtree(st.R, dp, faults)], Exc)
                      ELSE Log([st EXCEPT !.R = rmtree(st.R, dp, faults)], "Removed directory", dp)
                 ELSE IF ~Exists(st.R, dp) THEN st
                 ELSE IF Fails(faults, "remove", dp) THEN Raise(st, Exc)
                 ELSE Log([st EXCEPT !.R[dp] = Absent], "Removed file", dp)
            ELSE IF event_type \in {"created", "modified", "moved"}
            THEN IF IsDirectory(S, sp)
                 THEN IF Exists(st.R, dp) THEN st
                      ELSE IF copytreeRaises(S, st.R, sp, faults)
                      THEN Raise([st EXCEPT !.R = copytree(S, st.R, sp, faults)], Exc)
                      ELSE Log([st EXCEPT !.R = copytree(S, st.R, sp, faults)], "Copied directory", dp)
                 ELSE IF ~Exists(S, sp) THEN st
                 ELSE LET sm == IF Exists(st.R, dp) THEN md5Errors(st, S, sp, faults) ELSE st
                      IN  IF ~NeedsCopy(S, st.R, sp, faults) THEN sm
                          ELSE IF copy2Raises(S, st.R, sp, faults)
                          THEN Raise(sm, Exc)
                          ELSE Log([sm EXCEPT !.R = copy2(S, st.R, sp)], "Copied file", dp)
            ELSE st
    IN  Caught(try, dp)

(***************************************************************************)
(* State.                                                                  *)
(***************************************************************************)
VARIABLES
    srcFS,      \* the source tree
    repFS,      \* the replica tree
    log,        \* the lines of sourceLog.log
    queue,      \* notifications the observer has not yet passed to the handler
    cb,         \* position of log_event: "idle", or "moved" between its two lines
    pc,         \* position of main
    events,     \* the parsed events sync_from_log still has to handle
    mainLog,    \* the lines the current tick wrote to the main log
    changes,    \* number of changes made to the source tree
    sawEvents,  \* the log held lines when the tick inspected it
    steps,      \* the strategy steps the current tick has run
    tickFaults, \* the failures met by the current tree pass
    snapshot,   \* the log lines the current tick read
    applied,    \* the events the current tick has handled
    lost,       \* some line was truncated without having been read
    orphans,    \* replica entries the source has lacked since the tick started
    cleanPass,  \* the previous tick was a complete tree pass and the source is as it was
    lastMove,   \* the latest change of the source tree, when it is a rename made
                \* after the startup clear
    stoppedAt,  \* where main was when the KeyboardInterrupt arrived
    failed      \* the items whose copy or removal failed in the previous tick and that
                \* still differ between source and replica as this tick starts

vars == <<srcFS, repFS, log, queue, cb, pc, events, mainLog, changes, sawEvents,
          steps, tickFaults, snapshot, applied, lost, orphans, cleanPass, lastMove, stoppedAt,
          failed>>
tickVars == <<sawEvents, steps, tickFaults, snapshot, applied, orphans>>
watchVars == <<log, queue, cb>>
userVars == <<srcFS, changes, lastMove>>

NoMove == <<Root, Root>>

StartTrees(n) == {fs \in Trees : EntryCount(fs) <= n}
\* The program treats all names alike and all contents alike, so of the pairs of start
\* trees that differ only by exchanging the two names, or the two contents, one is
\* enough: the pair uses "b" only if it uses "a", and "Y" only if it uses "X".
UsedNames(S, R) == {n \in Names : S[<<n>>] # Absent \/ R[<<n>>] # Absent}
UsedContents(S, R) == {c \in Contents : \E p \in Paths : S[p] = c \/ R[p] = c}
UpToRenaming(S, R) ==
    /\ "b" \in UsedNames(S, R) => "a" \in UsedNames(S, R)
    /\ "Y" \in UsedContents(S, R) => "X" \in UsedContents(S, R)
InitWith(n) ==
    /\ srcFS \in {fs \in StartTrees(n) : fs[Root] = Dir}
    /\ repFS \in StartTrees(n)
    /\ UpToRenaming(srcFS, repFS)
    /\ log = << >> /\ queue = << >> /\ cb = "idle"
    /\ pc = "init" /\ events = << >> /\ mainLog = << >> /\ changes = 0
    /\ sawEvents = FALSE /\ steps = << >> /\ tickFaults = {} /\ snapshot = << >>
    /\ applied = << >> /\ lost = FALSE /\ orphans = {} /\ cleanPass = FALSE
    /\ lastMove = NoMove /\ stoppedAt = "none" /\ failed = {}

(***************************************************************************)
(* The watch subscription: what the observer queues for a change of the    *)
(* source tree, and SyncEventHandler.log_event.                            *)
(***************************************************************************)
Event(type, path, dest) == [event_type |-> type, src_path |-> join(SrcRoot, path), dest_path |-> dest]
DirModified(path) == Event("modified", Parent(path), << >>)

Running == pc \notin {"stopped", "crashed"}

\* the user writes a file: a new one, or other content into an existing one
WriteFile(p, c) ==
    /\ Running /\ changes < MaxChanges
    /\ p # Root /\ srcFS[Parent(p)] = Dir /\ srcFS[p] \notin {Dir, c}
    /\ srcFS' = [srcFS EXCEPT ![p] = c]
    /\ queue' = queue \o (IF srcFS[p] = Absent
                          THEN <<Event("created", p, << >>), DirModified(p)>>
                          ELSE <<Event("modified", p, << >>)>>)
    /\ lastMove' = NoMove

\* the user creates a directory
Mkdir(p) ==
    /\ Running /\ changes < MaxChanges
    /\ Len(p) = 1 /\ srcFS[p] = Absent
    /\ srcFS' = [srcFS EXCEPT ![p] = Dir]
    /\ queue' = queue \o <<Event("created", p, << >>), DirModified(p)>>
    /\ lastMove' = NoMove

\* the user deletes a file or an empty directory
Delete(p) ==
    /\ Running /\ changes < MaxChanges
    /\ p # Root /\ srcFS[p] # Absent /\ Listdir(srcFS, p) = {}
    /\ srcFS' = [srcFS EXCEPT ![p] = Absent]
    /\ queue' = queue \o <<Event("deleted", p, << >>), DirModified(p)>>
    /\ lastMove' = NoMove

\* the user renames a file or a directory to a free name
Move(p, q) ==
    /\ Running /\ changes < MaxChanges
    /\ p # Root /\ q # Root /\ srcFS[p] # Absent /\ srcFS[q] = Absent
    /\ srcFS[Parent(q)] = Dir /\ ~IsPrefix(p, q)
    /\ srcFS[p] = Dir => Len(q) = 1
    /\ srcFS' = [r \in Paths |->
                   IF IsPrefix(q, r)
                   THEN IF p \o relpath(r, q) \in Paths THEN srcFS[p \o relpath(r, q)] ELSE Absent
                   ELSE IF IsPrefix(p, r) THEN Absent ELSE srcFS[r]]
    /\ queue' = queue \o <<Event("moved", p, join(SrcRoot, q)), DirModified(p), DirModified(q)>>
                      \o [i \in 1..Len(InOrder(<<"a", "b">>, Listdir(srcFS, p))) |->
                            Event("moved", p \o <<InOrder(<<"a", "b">>, Listdir(srcFS, p))[i]>>,
                                  join(SrcRoot, q \o <<InOrder(<<"a", "b">>, Listdir(srcFS, p))[i]>>))]
    /\ lastMove' = IF pc = "init" THEN NoMove ELSE <<p, q>>

Change ==
    /\ \/ \E p \in Paths, c \in Contents : WriteFile(p, c)
       \/ \E p \in Paths : Mkdir(p)
       \/ \E p \in Paths : Delete(p)
       \/ \E p, q \in Paths : Move(p, q)
    /\ changes' = changes + 1
    /\ cleanPass' = FALSE
    /\ orphans' = {p \in orphans : srcFS'[p] = Absent}
    /\ UNCHANGED <<repFS, log, cb, pc, events, mainLog, lost, stoppedAt, failed>>
    /\ UNCHANGED <<sawEvents, steps, tickFaults, snapshot, applied>>

\* lines 37-47: one source_logger.info call of log_event
LogEvent ==
    /\ Running /\ queue # << >>
    /\ IF Head(queue).event_type = "moved"
       THEN IF cb = "idle"
            THEN /\ log' = Append(log, LogLine("deleted", Head(queue).src_path))
                 /\ cb' = "moved"
                 /\ queue' = queue
            ELSE /\ log' = Append(log, LogLine(Head(queue).event_type, Head(queue).dest_path))
                 /\ cb' = "idle"
                 /\ queue' = Tail(queue)
       ELSE /\ log' = Append(log, LogLine(Head(queue).event_type, Head(queue).src_path))
            /\ cb' = "idle"
            /\ queue' = Tail(queue)
    /\ UNCHANGED <<repFS, pc, events, mainLog, lost, cleanPass, stoppedAt, failed>>
    /\ UNCHANGED tickVars /\ UNCHANGED userVars

(***************************************************************************)
(* SyncScheduler: the loop of main.                                        *)
(***************************************************************************)
\* lines 214-217: the log is cleared once the observer has been started
StartupClear ==
    /\ pc = "init"
    /\ log' = << >>
    /\ pc' = "check"
    /\ UNCHANGED <<repFS, queue, cb, events, mainLog, lost, cleanPass, stoppedAt, failed>>
    /\ UNCHANGED tickVars /\ UNCHANGED userVars

\* lines 221-226: the size test that selects the strategy of the tick
LogHasEventsAlways(f) == getsize(f) >= 0
LogHasEvents(f) == getsize(f) > 0
Check ==
    /\ pc = "check"
    /\ sawEvents' = (log # << >>)
    /\ pc' = IF LogHasEvents(log) THEN "read" ELSE "tree"
    /\ mainLog' = IF LogHasEvents(log) THEN <<Line("Synchronizing from log...", Root)>>
                                ELSE <<Line("Synchronizing from source...", Root)>>
    /\ orphans' = {p \in Paths : repFS[p] # Absent /\ srcFS[p] = Absent}
    /\ failed' = {p \in failed : repFS[p] # srcFS[p]}
    /\ UNCHANGED <<repFS, events, steps, tickFaults, snapshot, applied, lost, cleanPass, stoppedAt>>
    /\ UNCHANGED watchVars /\ UNCHANGED userVars

\* line 172: sync_from_log reads the log
ReadLog ==
    /\ pc = "read"
    /\ events' = parse_event_log(log)
    /\ snapshot' = (IF Readable(log) THEN log ELSE << >>)
    /\ mainLog' = (IF Readable(log) THEN mainLog
                   ELSE Append(mainLog, Line("Error reading log file", Root)))
    /\ steps' = Append(steps, "log")
    /\ pc' = "replay"
    /\ UNCHANGED <<repFS, sawEvents, tickFaults, applied, lost, orphans, cleanPass,
                   stoppedAt, failed>>
    /\ UNCHANGED watchVars /\ UNCHANGED userVars

\* lines 131-132: the read of the log raises for a reason outside the file's content;
\* parse_event_log records it and returns no event
ReadLogFails ==
    /\ pc = "read"
    /\ events' = << >>
    /\ snapshot' = << >>
    /\ mainLog' = Append(mainLog, Line("Error reading log file", Root))
    /\ steps' = Append(steps, "log")
    /\ pc' = "replay"
    /\ UNCHANGED <<repFS, sawEvents, tickFaults, applied, lost, orphans, cleanPass, stoppedAt, failed>>
    /\ UNCHANGED watchVars /\ UNCHANGED userVars

\* what main does with the outcome of a reconciliation: only KeyboardInterrupt is caught
AfterPass(exc) == IF exc = NoExc THEN "sleep" ELSE IF exc = Interrupt THEN "stopped" ELSE "crashed"

\* lines 173-174: the next event of the loop
NextEventFromEnd(evs) == evs[Len(evs)]
NextEvent(evs) == Head(evs)
HandleEvent(faultSets) ==
    /\ pc = "replay" /\ events # << >>
    /\ \E faults \in faultSets :
          LET st == handle_event(NextEvent(events), SrcRoot, RepRoot, srcFS,
                                 St(repFS, mainLog, NoExc), faults)
          IN  /\ faults = {} \/ st # handle_event(NextEvent(events), SrcRoot, RepRoot, srcFS,
                                                  St(repFS, mainLog, NoExc), {})
              /\ repFS' = st.R
              /\ mainLog' = st.ops
              /\ pc' = IF st.exc = NoExc THEN pc ELSE AfterPass(st.exc)
    /\ applied' = Append(applied, NextEvent(events))
    /\ events' = Tail(events)
    /\ UNCHANGED <<sawEvents, steps, tickFaults, snapshot, lost, orphans, cleanPass, stoppedAt, failed>>
    /\ UNCHANGED watchVars /\ UNCHANGED userVars

\* lines 176-178: the log is truncated after the loop
\* the lines appended between the read of line 172 and the truncation
Unread(f, read) == SubSeq(f, Len(read) + 1, Len(f))
Clear ==
    /\ pc = "replay" /\ events = << >>
    /\ log' = << >>
    /\ lost' = (lost \/ Unread(log, snapshot) # << >>)
    /\ steps' = Append(steps, "clear")
    /\ pc' = "sleep"
    /\ cleanPass' = FALSE
    /\ UNCHANGED <<repFS, queue, cb, events, mainLog, sawEvents, tickFaults, snapshot,
                   applied, orphans, stoppedAt, failed>>
    /\ UNCHANGED userVars

\* line 226: a full tree pass
TreeSync(faultSets) ==
    /\ pc = "tree"
    /\ \E faults \in faultSets, ord \in Orders :
          LET st == sync_folders(Root, srcFS, St(repFS, mainLog, NoExc), faults, ord)
          IN  /\ faults = {} \/ st # sync_folders(Root, srcFS, St(repFS, mainLog, NoExc), {}, ord)
              /\ repFS' = st.R
              /\ mainLog' = st.ops
              /\ tickFaults' = faults
              /\ pc' = AfterPass(st.exc)
              /\ steps' = Append(steps, IF st.exc = NoExc THEN "tree" ELSE "tree aborted")
              /\ stoppedAt' = IF st.exc = Interrupt THEN "tree" ELSE stoppedAt
              /\ cleanPass' = (st.exc = NoExc /\ faults = {})
    /\ UNCHANGED <<events, sawEvents, snapshot, applied, lost, orphans, failed>>
    /\ UNCHANGED watchVars /\ UNCHANGED userVars

\* the items of the error lines of a tick
FailureKinds == {"Error copying", "Error removing", "Error handling event"}
FailedItems(ml) == {ml[i].path : i \in {j \in 1..Len(ml) : ml[j].kind \in FailureKinds}}

\* line 227
Sleep ==
    /\ pc = "sleep"
    /\ pc' = "check"
    /\ failed' = FailedItems(mainLog)
    /\ mainLog' = << >> /\ sawEvents' = FALSE /\ steps' = << >> /\ tickFaults' = {}
    /\ snapshot' = << >> /\ applied' = << >> /\ orphans' = {}
    /\ UNCHANGED <<repFS, events, lost, cleanPass, stoppedAt>>
    /\ UNCHANGED watchVars /\ UNCHANGED userVars

\* lines 228-230: Ctrl-C between two statements of the loop; the observer is stopped
KeyboardInterrupt ==
    /\ pc \in {"init", "check", "read", "replay", "sleep"}
    /\ pc' = "stopped"
    /\ stoppedAt' = pc
    /\ UNCHANGED <<repFS, events, mainLog, lost, cleanPass, failed>>
    /\ UNCHANGED tickVars /\ UNCHANGED watchVars /\ UNCHANGED userVars

\* lines a log file may hold: the lines of log_event, and lines of other writers of
\* sourceLog.log (a blank line, an event line cut before its path, another text, bytes
\* that are no text)
EventLines == {LogLine(type, join(SrcRoot, <<"a">>)) : type \in {"created", "modified", "deleted"}}
MalformedLines ==
    { [message |-> <<"">>],
      [message |-> <<"Event type", "created">>],
      [message |-> <<"Event kind", "created", join(SrcRoot, <<"a">>)>>] }
LogFiles(n) == UNION {[1..k -> EventLines \cup MalformedLines \cup {UndecodableLine}] : k \in 0..n}

NoFaults == {{}}
InterruptSets == {{}} \cup {{[op |-> "interrupt", path |-> p]} : p \in Paths}

(***************************************************************************)
(* Specifications.                                                         *)
(***************************************************************************)
\* the whole program: the loop of main, the observer's handler and the user, with a
\* file system whose calls succeed
Init == InitWith(MaxInitEntries)
Next ==
    \/ Change
    \/ LogEvent
    \/ StartupClear
    \/ Check
    \/ ReadLog
    \/ HandleEvent(NoFaults)
    \/ Clear
    \/ TreeSync(NoFaults)
    \/ Sleep
Spec == Init /\ [][Next]_vars

\* tree passes over every pair of small trees, with a source nobody changes and a
\* file system whose calls may fail
TreeInit == InitWith(MaxEntries)
TreeNext ==
    \/ StartupClear
    \/ Check
    \/ TreeSync(FaultSets)
    \/ Sleep
TreeSpec == TreeInit /\ [][TreeNext]_vars

\* log replays of a log that holds every change made since the replica last equalled
\* the source: the user changes the source, and the handler logs it, only between ticks
ReplayInit == InitWith(MaxInitEntries) /\ repFS = srcFS
ChangeBetweenTicks == pc = "sleep" /\ Change
LogEventBetweenTicks == pc = "sleep" /\ LogEvent
SleepUntilLogged == queue = << >> /\ Sleep
ReplayNext ==
    \/ StartupClear
    \/ ChangeBetweenTicks
    \/ LogEventBetweenTicks
    \/ Check
    \/ ReadLog
    \/ HandleEvent(NoFaults)
    \/ Clear
    \/ TreeSync(NoFaults)
    \/ SleepUntilLogged
ReplaySpec == ReplayInit /\ [][ReplayNext]_vars

\* the same loop with a user who may press Ctrl-C at any statement of it
StopNext ==
    \/ StartupClear
    \/ ChangeBetweenTicks
    \/ LogEventBetweenTicks
    \/ Check
    \/ ReadLog
    \/ HandleEvent(NoFaults)
    \/ Clear
    \/ TreeSync(InterruptSets)
    \/ SleepUntilLogged
    \/ KeyboardInterrupt
StopSpec == Init /\ [][StopNext]_vars

\* the loop with a file system whose calls may fail, the read of the log included,
\* started on a replica that equals the source
FaultNext ==
    \/ StartupClear
    \/ ChangeBetweenTicks
    \/ LogEventBetweenTicks
    \/ Check
    \/ ReadLog
    \/ ReadLogFails
    \/ HandleEvent(FaultSets \cup BothUnreadable)
    \/ Clear
    \/ TreeSync(FaultSets \cup BothUnreadable)
    \/ SleepUntilLogged
FaultSpec == ReplayInit /\ [][FaultNext]_vars

\* the loop from its first tick on, over every small content of the log file
ParseInit ==
    /\ srcFS \in {fs \in StartTrees(MaxInitEntries) : fs[Root] = Dir} /\ repFS = srcFS
    /\ log \in LogFiles(MaxLines) /\ queue = << >> /\ cb = "idle"
    /\ pc = "check" /\ events = << >> /\ mainLog = << >> /\ changes = 0
    /\ sawEvents = FALSE /\ steps = << >> /\ tickFaults = {} /\ snapshot = << >>
    /\ applied = << >> /\ lost = FALSE /\ orphans = {} /\ cleanPass = FALSE
    /\ lastMove = NoMove /\ stoppedAt = "none" /\ failed = {}
ParseNext ==
    \/ Check
    \/ ReadLog
    \/ HandleEvent(NoFaults)
    \/ Clear
    \/ TreeSync(NoFaults)
    \/ Sleep
ParseSpec == ParseInit /\ [][ParseNext]_vars

(***************************************************************************)
(* Properties.                                                             *)
(***************************************************************************)
TreePassOver == pc \in {"sleep", "crashed"} /\ steps \in {<<"tree">>, <<"tree aborted">>}
LogTickOver == pc = "sleep" /\ steps = <<"log", "clear">>
OpKinds == {"Copied", "Removed file", "Removed directory"}
NoOps(ml) == \A i \in 1..Len(ml) : ml[i].kind \notin OpKinds

\* C1: after a tree pass on which no system call failed, with a source nobody changed,
\* the replica has the directories, files and contents of the source.
C1_Convergence == (TreePassOver /\ tickFaults = {}) => repFS = srcFS

\* C5: a tree pass on which one file-system operation failed still ends normally and
\* the loop goes on to the next tick (the pass is not aborted, the process lives on).
C5_FailureIsolation ==
    (TreePassOver /\ tickFaults # {} /\ \A f \in tickFaults : f.op # "interrupt") => pc = "sleep"

\* C9: a tree pass that follows a complete tree pass, with no change of the source in
\* between and no failing call, copies nothing, deletes nothing and leaves the replica
\* as the first pass left it.
C9_Idempotence ==
    [][(pc = "tree" /\ cleanPass /\ tickFaults' = {}) => (repFS' = repFS /\ NoOps(mainLog'))]_vars

\* C2: no line appended after the startup clear is truncated away before sync_from_log
\* has read it and handed its event to handle_event (appends and the scheduler's
\* read-then-truncate exclude each other).
C2_NoEventLost == ~lost

\* C3: every tick runs exactly one strategy: the log replay followed by the clear if
\* and only if the log held lines when the tick inspected it, the tree pass otherwise.
C3_StrategySelection ==
    /\ pc = "read" => (sawEvents /\ steps = << >>)
    /\ pc = "replay" => (sawEvents /\ steps = <<"log">>)
    /\ pc = "tree" => (~sawEvents /\ steps = << >>)
    /\ pc = "sleep" => steps = (IF sawEvents THEN <<"log", "clear">> ELSE <<"tree">>)
    /\ pc = "crashed" => (~sawEvents /\ steps = <<"tree aborted">>)
\* a tick that found lines in the log has replayed them and cleared the log
C3_Witness == LogTickOver /\ sawEvents /\ applied # << >> /\ changes > 1

\* C4: an entry the replica has and the source lacks when a tick starts is gone from
\* the replica when that tick is over, whichever strategy the tick ran.
C4_DeletionPropagation ==
    pc = "sleep" => \A p \in orphans : srcFS[p] = Absent => repFS[p] = Absent

\* the events of the lines a tick read, in the order of the lines
Logged(f) == [i \in 1..Len(f) |-> <<f[i].message[2], f[i].message[3]>>]
\* the last event of evs for the path a is Deleted(a)
LastIsDeleted(evs, a) ==
    \E i \in 1..Len(evs) :
        /\ evs[i] = <<"deleted", join(SrcRoot, a)>>
        /\ \A j \in (i + 1)..Len(evs) : evs[j][2] # join(SrcRoot, a)
ReplayOver == pc = "replay" /\ events = << >>
InOrderOfAppend == pc = "replay" => applied \o events = Logged(snapshot)
\* the tick copied something at a path above or below a
CopiedAround(ml, a) ==
    \E i \in 1..Len(ml) :
        /\ ml[i].kind \in {"Copied file", "Copied directory"}
        /\ ml[i].path # a
        /\ IsPrefix(ml[i].path, a) \/ IsPrefix(a, ml[i].path)

C7_MoveDecomposition ==
    (LogTickOver /\ lastMove # NoMove /\ queue = << >> /\ cb = "idle" /\ log = << >>)
        => (repFS[lastMove[1]] = Absent /\ repFS[lastMove[2]] = srcFS[lastMove[2]])

\* C8: when the replica equalled the source as the log was last emptied and the log
\* holds every change made since, a log replay with no concurrent change and no failing
\* call leaves the replica equal to the source.
C8_ReplayEquivalence == (LogTickOver /\ queue = << >> /\ log = << >>) => repFS = srcFS
\* a replay of the events of two changes, the later one a rename, is over
C8_Witness ==
    /\ LogTickOver /\ queue = << >> /\ log = << >> /\ repFS = srcFS
    /\ changes > 1 /\ lastMove # NoMove /\ Len(applied) > 3

\* C10: a KeyboardInterrupt that arrives while a tick is reconciling stops the process
\* only after that tick is over: every event read has been handled and the log cleared,
\* or the tree pass has run to its end.
C10_CooperativeCancellation ==
    (pc = "stopped" /\ stoppedAt \in {"read", "replay", "tree"})
        => (events = << >> /\ steps \in {<<"log", "clear">>, <<"tree">>})

\* the lines of a tick's main log that report an attempt on an item: a copy or a
\* removal, done or failed
AttemptKinds ==
    {"Copied", "Copied file", "Copied directory", "Removed file", "Removed directory"}
        \cup FailureKinds
Attempted(ml, p) == \E i \in 1..Len(ml) : ml[i].path = p /\ ml[i].kind \in AttemptKinds
TickOver == pc = "sleep" /\ steps # << >>

\* C11: an item whose copy or removal failed in a tick, and that still differs between
\* source and replica when the next tick starts, is attempted again by that next tick.
C11_RetryNextTick == TickOver => \A p \in failed : Attempted(mainLog, p)

\* C12: whenever a fingerprint of a comparison could not be computed (an "Error
\* calculating MD5" line), the pair is treated as unequal: a copy of that file follows.
C12_UnreadableMeansDifferent ==
    \A i \in 1..Len(mainLog) :
        mainLog[i].kind = "Error calculating MD5"
            => \E j \in (i + 1)..Len(mainLog) :
                  /\ mainLog[j].path = mainLog[i].path
                  /\ mainLog[j].kind \in {"Copied", "Copied file", "Error copying", "Error handling event"}

\* C13: an event whose operation fails is recorded and the replay goes on: the events
\* read are handled one after the other, in their order, down to the last one, and the
\* process is not terminated.
C13_ReplayFailureIsolation ==
    (steps # << >> /\ steps[1] = "log")
        => /\ pc \in {"replay", "sleep"}
           /\ applied \o events = parse_event_log(snapshot)
           /\ pc = "sleep" => events = << >>
\* a replay recorded a failure of one event and then carried out a later one
C13_Witness ==
    /\ LogTickOver
    /\ \E i \in 1..Len(mainLog) : \E j \in (i + 1)..Len(mainLog) :
          /\ mainLog[i].kind = "Error handling event"
          /\ mainLog[j].kind \in {"Copied file", "Copied directory", "Removed file", "Removed directory"}

\* the event the replay handles next, its type and its path below the roots
Replaying(types) == pc = "replay" /\ events # << >> /\ NextEvent(events)[1] \in types
ItemPath == relpath(NextEvent(events)[2], SrcRoot)
LastApplied == applied[Len(applied)]
LastLine == mainLog[Len(mainLog)]

\* C14: the replay of a created, modified or moved event whose source path no longer
\* exists leaves the replica as it is and writes no line, hence no error, to the main log.
C14_VanishedSourcePath ==
    [][(Replaying({"created", "modified", "moved"}) /\ srcFS[ItemPath] = Absent)
          => (repFS' = repFS /\ mainLog' = mainLog)]_vars
\* a created event was replayed after the user had deleted the new file again
C14_Witness ==
    /\ pc = "replay" /\ applied # << >> /\ changes > 1
    /\ LastApplied[1] = "created" /\ srcFS[relpath(LastApplied[2], SrcRoot)] = Absent
    /\ repFS[relpath(LastApplied[2], SrcRoot)] = Absent /\ Len(mainLog) = 1

C17_DeletedIdempotent ==
    [][Replaying({"deleted"})
          => /\ \A q \in Paths : repFS'[q] = (IF IsPrefix(ItemPath, q) THEN Absent ELSE repFS[q])
             /\ repFS[ItemPath] = Absent => (repFS' = repFS /\ mainLog' = mainLog)
             /\ FailedItems(mainLog') = FailedItems(mainLog)
             /\ handle_event(NextEvent(events), SrcRoot, RepRoot, srcFS,
                             St(repFS', mainLog', NoExc), {}) = St(repFS', mainLog', NoExc)]_vars
\* the replay of a deleted event has removed a replica directory and a file it held
C17_Witness ==
    /\ pc = "replay" /\ applied # << >> /\ LastApplied[1] = "deleted"
    /\ LastLine = Line("Removed directory", relpath(LastApplied[2], SrcRoot))
    /\ \E q \in orphans : Len(q) = 2 /\ Parent(q) = relpath(LastApplied[2], SrcRoot) /\ repFS[q] = Absent

\* the tick could not read the log
ReadFailed(ml) == \E i \in 1..Len(ml) : ml[i].kind = "Error reading log file"

\* C15: lines leave the log only by the startup clear and by the truncation that ends a
\* log replay whose read succeeded; every other step, a tree pass included, keeps the
\* lines the log holds, and a replay that failed to read the log does not empty it.
C15_TruncationPoints ==
    [][~IsPrefix(log, log')
          => (pc = "init" \/ (pc = "replay" /\ events = << >> /\ ~ReadFailed(mainLog)))]_vars

\* a line of the format "Event type: <kind>: <path>", and the events of such lines
WellFormedLine(l) == Len(l.message) = 3 /\ l.message[1] = "Event type"
EventsOf(f) == Logged(SelectSeq(f, WellFormedLine))

\* C18: whatever the log file holds, the events a log replay hands to handle_event are
\* those of its well-formed lines, in file order; a line of another form gives no event
\* and the lines after it are parsed and replayed all the same.
C18_MalformedLinesSkipped == pc = "replay" => applied \o events = EventsOf(log)

\* line 139: the replica path a replayed event is applied to
DestItemPath(event) == join(RepRoot, relpath(event[2], SrcRoot))

C20_ConvergenceAfterQuiescence ==
    (pc = "sleep" /\ steps = <<"tree">> /\ queue = << >> /\ cb = "idle" /\ log = << >>)
        => repFS = srcFS

====
